---- MODULE Spec2Model ----
(***************************************************************************)
(* The network target of src/config/have_sys_socket.c: one target (its     *)
(* handle and its mutex), the descriptor table of the process, and a       *)
(* number of threads that call the open, reopen, send, is_open and close   *)
(* functions on that target.  Every system call is one step of the thread  *)
(* that makes it; what the system answers is chosen by the environment.    *)
(***************************************************************************)
EXTENDS Integers, Sequences, FiniteSets, TLC

\* ---------------------------------------------------------------- bounds
NumThreads == 2
MaxFd == 2
MaxMsgLen == 2

Threads == 1..NumThreads
FDs == 0..(MaxFd - 1)
MsgLens == 0..MaxMsgLen

\* ------------------------------------------------------------- constants
\* target->handle = -1
Sentinel == -1

Variants == {"tcp4", "tcp6", "udp4", "udp6"}

\* <errno.h> and <netdb.h> values of the platform
Errno == [EBADF |-> 9, EMFILE |-> 24, EPIPE |-> 32, ENOTCONN |-> 107,
          ECONNREFUSED |-> 111]
Eai == [NONAME |-> -2]

VARIABLES
  target,   \* target->destination, target->port, and what the target is for
  handle,   \* target->handle
  setter,   \* the function that assigned handle last
  mutex,    \* target->mutex: who holds it, and whether it still exists
  fdtab,    \* the descriptors of the process: "free", "socket", "connected"
  pc,       \* per thread: the statement it is at
  call,     \* per thread: the function it is in, and its arguments
  local,    \* per thread: handle, result, addr_result of the frame, and errno
  ret,      \* per thread: the value its call returned
  trace,    \* per thread: the calls its current function call has made
  wire      \* what the peer of the connection has received, when observed

vars == <<target, handle, setter, mutex, fdtab, pc, call, local, ret, trace,
          wire>>

\* ------------------------------------------------------------ the record
NoCall == [op |-> "none", variant |-> "none", len |-> 0]
NoLocal == [handle |-> Sentinel, os_result |-> 0, addr_result |-> "unset",
            result |-> 0, errno |-> 0]
NoRet == [ptr |-> "none", n |-> 0]
NoEv == [ev |-> "", fd |-> Sentinel, res |-> 0, kind |-> "", code |-> 0,
         ctype |-> "", domain |-> "", type |-> "", protocol |-> 0,
         destination |-> "", port |-> "", len |-> 0, held |-> FALSE]

\* what a thread's call has done so far, each entry stamped with whether the
\* thread held the mutex when it did it
Logged(t, es) ==
  trace' = [trace EXCEPT ![t] = @ \o
             [i \in 1..Len(es) |-> [es[i] EXCEPT !.held = t \in mutex.holders]]]

\* ------------------------------------------------------------- the mutex
lock_network_target(t) ==
  /\ mutex.live
  /\ mutex.holders = {}
  /\ mutex' = [mutex EXCEPT !.holders = {t}]

unlock_network_target(t) ==
  mutex' = [mutex EXCEPT !.holders = @ \ {t}]

\* ------------------------------------------------- the descriptor table
FreeFds == {f \in FDs : fdtab[f] = "free"}
LowestFree == CHOOSE f \in FreeFds : \A g \in FreeFds : f <= g
IsOpenFd(f) == f \in FDs /\ fdtab[f] # "free"

\* close( fd ): 0, or -1 when fd is no open descriptor
CloseRes(f) == IF IsOpenFd(f) THEN 0 ELSE -1
CloseTab(f) == IF IsOpenFd(f) THEN [fdtab EXCEPT ![f] = "free"] ELSE fdtab

\* A target is made for one transport and one family, and its callers use the
\* open and reopen functions of that transport and family.
Targets ==
  {[destination |-> IF v \in {"tcp4", "udp4"} THEN "192.0.2.1" ELSE "2001:db8::1",
    port |-> IF v \in {"tcp4", "tcp6"} THEN "601" ELSE "514",
    variant |-> v] : v \in Variants}

\* The peer is not observed: on is FALSE.  When it is, bytes is the sequence
\* of bytes the peer has received, each marked with the thread whose send call
\* it comes from, sent the threads that have called send, req the length each
\* asked to send and got what its call returned.
NoWire == [on |-> FALSE, sent |-> {}, req |-> [t \in Threads |-> 0],
           got |-> [t \in Threads |-> 0], bytes |-> <<>>]

Init ==
  /\ target \in Targets
  /\ handle = Sentinel
  /\ setter = "init"
  /\ mutex = [holders |-> {}, live |-> TRUE]
  /\ fdtab = [f \in FDs |-> "free"]
  /\ pc = [t \in Threads |-> "idle"]
  /\ call = [t \in Threads |-> NoCall]
  /\ local = [t \in Threads |-> NoLocal]
  /\ ret = [t \in Threads |-> NoRet]
  /\ trace = [t \in Threads |-> <<>>]
  /\ wire = NoWire

\* The return of a call is an instant: what the caller sees of it (ret, trace)
\* is taken before any other thread moves.  Return changes nothing that
\* another thread reads, so that no interleaving of the program is lost.
Returning(t) == \A u \in Threads \ {t} : pc[u] # "done"

\* thread t is at statement p, and it is its turn
At(t, p) == pc[t] = p /\ Returning(t)

\* ---------------------------------------------------------------- calls
\* The arguments each open function passes to sys_socket_open_socket.
OpenTriple(v) ==
  CASE v = "tcp4" -> [domain |-> "AF_INET", type |-> "SOCK_STREAM", protocol |-> 0]
    [] v = "tcp6" -> [domain |-> "AF_INET6", type |-> "SOCK_STREAM", protocol |-> 0]
    [] v = "udp4" -> [domain |-> "AF_INET", type |-> "SOCK_DGRAM", protocol |-> 0]
    [] v = "udp6" -> [domain |-> "AF_INET6", type |-> "SOCK_DGRAM", protocol |-> 0]

\* faulty variant: the reopen function of udp6 asks for a stream socket
ReopenTriple_Udp6Stream(v) ==
  CASE v = "tcp4" -> [domain |-> "AF_INET", type |-> "SOCK_STREAM", protocol |-> 0]
    [] v = "tcp6" -> [domain |-> "AF_INET6", type |-> "SOCK_STREAM", protocol |-> 0]
    [] v = "udp4" -> [domain |-> "AF_INET", type |-> "SOCK_DGRAM", protocol |-> 0]
    [] v = "udp6" -> [domain |-> "AF_INET6", type |-> "SOCK_STREAM", protocol |-> 0]

\* The arguments each reopen function passes to sys_socket_open_socket.
ReopenTriple(v) ==
  CASE v = "tcp4" -> [domain |-> "AF_INET", type |-> "SOCK_STREAM", protocol |-> 0]
    [] v = "tcp6" -> [domain |-> "AF_INET6", type |-> "SOCK_STREAM", protocol |-> 0]
    [] v = "udp4" -> [domain |-> "AF_INET", type |-> "SOCK_DGRAM", protocol |-> 0]
    [] v = "udp6" -> [domain |-> "AF_INET6", type |-> "SOCK_DGRAM", protocol |-> 0]

\* domain, type, protocol of the running sys_socket_open_socket frame
Args(t) ==
  IF call[t].op = "open" THEN OpenTriple(call[t].variant)
                         ELSE ReopenTriple(call[t].variant)

\* A thread may start a call while the target exists: after construction, and
\* before its caller starts to close it.
Callable(t) ==
  /\ At(t, "idle")
  /\ mutex.live
  /\ \A u \in Threads : call[u].op # "close"

Enter(t, c, at) ==
  /\ Callable(t)
  /\ pc' = [pc EXCEPT ![t] = at]
  /\ call' = [call EXCEPT ![t] = c]
  /\ UNCHANGED <<target, setter, handle, mutex, fdtab, local, ret, trace>>

OpenCall(t) ==
  /\ Enter(t, [op |-> "open", variant |-> target.variant, len |-> 0], "open_lock")
  /\ UNCHANGED wire
ReopenCall(t) ==
  /\ Enter(t, [op |-> "reopen", variant |-> target.variant, len |-> 0], "reopen_lock")
  /\ UNCHANGED wire
SendCall(t, n) ==
  /\ Enter(t, [op |-> "send", variant |-> "none", len |-> n], "send_lock")
  /\ UNCHANGED wire

\* ---------------------------------------- sys_socket_open_socket, 31-87
\* return v to the open or reopen function that called
OsReturn(t, v, errno) ==
  /\ local' = [local EXCEPT ![t] = [NoLocal EXCEPT !.result = v, !.errno = errno]]
  /\ pc' = [pc EXCEPT ![t] = IF call[t].op = "open" THEN "open_store"
                                                   ELSE "reopen_store"]

RaiseEv(kind, code, ctype) ==
  [NoEv EXCEPT !.ev = "raise", !.kind = kind, !.code = code, !.ctype = ctype]

SocketEv(a, r) ==
  [NoEv EXCEPT !.ev = "socket", !.res = r, !.domain = a.domain,
               !.type = a.type, !.protocol = a.protocol]

\* handle = socket( domain, type, protocol ), and its failure
OsSocket(t) ==
  /\ At(t, "os_socket")
  /\ \/ /\ FreeFds # {}
        /\ fdtab' = [fdtab EXCEPT ![LowestFree] = "socket"]
        /\ local' = [local EXCEPT ![t].handle = LowestFree]
        /\ pc' = [pc EXCEPT ![t] = "os_getaddrinfo"]
        /\ Logged(t, <<SocketEv(Args(t), LowestFree)>>)
     \/ /\ OsReturn(t, -1, Errno.EMFILE)
        /\ Logged(t, <<SocketEv(Args(t), -1),
                       RaiseEv("socket_failure", Errno.EMFILE, "errno")>>)
        /\ UNCHANGED fdtab
  /\ UNCHANGED <<wire, target, setter, handle, mutex, call, ret>>

GetaddrinfoEv(a, r) ==
  [NoEv EXCEPT !.ev = "getaddrinfo", !.res = r, !.domain = a.domain,
               !.type = a.type, !.protocol = a.protocol,
               !.destination = target.destination, !.port = target.port]

\* faulty variant: the failure of getaddrinfo is reported with errno
OsGetaddrinfo_RaiseErrno(t) ==
  /\ At(t, "os_getaddrinfo")
  /\ \/ /\ local' = [local EXCEPT ![t].os_result = 0, ![t].addr_result = "alloc"]
        /\ pc' = [pc EXCEPT ![t] = "os_connect"]
        /\ Logged(t, <<GetaddrinfoEv(Args(t), 0)>>)
     \/ /\ local' = [local EXCEPT ![t].os_result = Eai.NONAME]
        /\ pc' = [pc EXCEPT ![t] = "os_fail_addr"]
        /\ Logged(t, <<GetaddrinfoEv(Args(t), Eai.NONAME),
                       RaiseEv("address_failure", local[t].errno, "errno")>>)
  /\ UNCHANGED <<wire, target, setter, handle, mutex, fdtab, call, ret>>

\* result = getaddrinfo( destination, port, &hints, &addr_result )
OsGetaddrinfo(t) ==
  /\ At(t, "os_getaddrinfo")
  /\ \/ /\ local' = [local EXCEPT ![t].os_result = 0, ![t].addr_result = "alloc"]
        /\ pc' = [pc EXCEPT ![t] = "os_connect"]
        /\ Logged(t, <<GetaddrinfoEv(Args(t), 0)>>)
     \/ /\ local' = [local EXCEPT ![t].os_result = Eai.NONAME]
        /\ pc' = [pc EXCEPT ![t] = "os_fail_addr"]
        /\ Logged(t, <<GetaddrinfoEv(Args(t), Eai.NONAME),
                       RaiseEv("address_failure", Eai.NONAME, "getaddrinfo")>>)
  /\ UNCHANGED <<wire, target, setter, handle, mutex, fdtab, call, ret>>

ConnectEv(f, r) == [NoEv EXCEPT !.ev = "connect", !.fd = f, !.res = r]

\* result = connect( handle, addr_result->ai_addr, addr_result->ai_addrlen )
OsConnect(t) ==
  /\ At(t, "os_connect")
  /\ \/ /\ fdtab' = [fdtab EXCEPT ![local[t].handle] = "connected"]
        /\ local' = [local EXCEPT ![t].os_result = 0]
        /\ pc' = [pc EXCEPT ![t] = "os_done"]
        /\ Logged(t, <<ConnectEv(local[t].handle, 0)>>)
     \/ /\ local' = [local EXCEPT ![t].os_result = -1,
                                  ![t].errno = Errno.ECONNREFUSED]
        /\ pc' = [pc EXCEPT ![t] = "os_fail_connect"]
        /\ Logged(t, <<ConnectEv(local[t].handle, -1),
                       RaiseEv("connect_failure", Errno.ECONNREFUSED, "errno")>>)
        /\ UNCHANGED fdtab
  /\ UNCHANGED <<wire, target, setter, handle, mutex, call, ret>>

\* freeaddrinfo( a ): res 0 when a is a live list, -1 when it is not
FreeaddrinfoEv(a) ==
  [NoEv EXCEPT !.ev = "freeaddrinfo", !.res = IF a = "alloc" THEN 0 ELSE -1]

CloseEv(f) == [NoEv EXCEPT !.ev = "close", !.fd = f, !.res = CloseRes(f)]

\* freeaddrinfo( addr_result ); return handle;
OsDone(t) ==
  /\ At(t, "os_done")
  /\ OsReturn(t, local[t].handle, local[t].errno)
  /\ Logged(t, <<FreeaddrinfoEv(local[t].addr_result)>>)
  /\ UNCHANGED <<wire, target, setter, handle, mutex, fdtab, call, ret>>

\* faulty variant: a failed connect returns -1 with the socket left open
OsFailConnect_NoClose(t) ==
  /\ At(t, "os_fail_connect")
  /\ OsReturn(t, -1, local[t].errno)
  /\ Logged(t, <<FreeaddrinfoEv(local[t].addr_result)>>)
  /\ UNCHANGED <<wire, target, setter, handle, mutex, fdtab, call, ret>>

\* fail_connect: freeaddrinfo( addr_result );
OsFailConnect(t) ==
  /\ At(t, "os_fail_connect")
  /\ local' = [local EXCEPT ![t].addr_result = "freed"]
  /\ pc' = [pc EXCEPT ![t] = "os_fail_addr"]
  /\ Logged(t, <<FreeaddrinfoEv(local[t].addr_result)>>)
  /\ UNCHANGED <<wire, target, setter, handle, mutex, fdtab, call, ret>>

\* faulty variant: the failure paths return without closing the socket
OsFailAddr_NoClose(t) ==
  /\ At(t, "os_fail_addr")
  /\ OsReturn(t, -1, local[t].errno)
  /\ UNCHANGED <<wire, target, handle, setter, mutex, fdtab, call, ret, trace>>

\* fail_addr: close( handle ); fail: return -1;
OsFailAddr(t) ==
  /\ At(t, "os_fail_addr")
  /\ fdtab' = CloseTab(local[t].handle)
  /\ OsReturn(t, -1, local[t].errno)
  /\ Logged(t, <<CloseEv(local[t].handle)>>)
  /\ UNCHANGED <<wire, target, setter, handle, mutex, call, ret>>

\* ------------------------------------------------ handle, as it is used
LoadEv(v) == [NoEv EXCEPT !.ev = "load_handle", !.fd = v]
StoreEv(v) == [NoEv EXCEPT !.ev = "store_handle", !.fd = v]
LockEv == [NoEv EXCEPT !.ev = "lock"]
UnlockEv == [NoEv EXCEPT !.ev = "unlock"]

\* faulty variant: the handle is tested as a pointer or a count would be
is_open_NonZero == handle # 0

\* return target->handle != -1;
sys_socket_network_target_is_open == handle # Sentinel

\* ------------------------------------ sys_socket_open_*_target, 104-166
\* lock_network_target( target );
OpenLock(t) ==
  /\ At(t, "open_lock")
  /\ lock_network_target(t)
  /\ pc' = [pc EXCEPT ![t] = "os_socket"]
  /\ trace' = [trace EXCEPT ![t] = Append(@, [LockEv EXCEPT !.held = TRUE])]
  /\ UNCHANGED <<wire, target, setter, handle, fdtab, call, local, ret>>

\* target->handle = result;
OpenStore(t) ==
  /\ At(t, "open_store")
  /\ handle' = local[t].result
  /\ setter' = "open"
  /\ pc' = [pc EXCEPT ![t] = "open_unlock"]
  /\ Logged(t, <<StoreEv(local[t].result)>>)
  /\ UNCHANGED <<wire, target, mutex, fdtab, call, local, ret>>

\* faulty variant: the test of the result is the test of a status code
OpenResult_ZeroIsFailure(r) == IF r = 0 THEN "NULL" ELSE "target"

\* return result == -1 ? NULL : target;
OpenResult(r) == IF r = -1 THEN "NULL" ELSE "target"

\* unlock_network_target( target ); return ...
OpenUnlock(t) ==
  /\ At(t, "open_unlock")
  /\ unlock_network_target(t)
  /\ ret' = [ret EXCEPT ![t] = [ptr |-> OpenResult(local[t].result), n |-> 0]]
  /\ pc' = [pc EXCEPT ![t] = "done"]
  /\ Logged(t, <<UnlockEv>>)
  /\ UNCHANGED <<wire, target, setter, handle, fdtab, call, local>>

\* ---------------------------------- sys_socket_reopen_*_target, 168-234
\* faulty variant: reopen runs without taking the mutex
ReopenLock_NoLock(t) ==
  /\ At(t, "reopen_lock")
  /\ pc' = [pc EXCEPT ![t] = "reopen_check"]
  /\ Logged(t, <<LockEv>>)
  /\ UNCHANGED <<wire, target, setter, handle, mutex, fdtab, call, local, ret>>

\* lock_network_target( target );
ReopenLock(t) ==
  /\ At(t, "reopen_lock")
  /\ lock_network_target(t)
  /\ pc' = [pc EXCEPT ![t] = "reopen_check"]
  /\ trace' = [trace EXCEPT ![t] = Append(@, [LockEv EXCEPT !.held = TRUE])]
  /\ UNCHANGED <<wire, target, setter, handle, fdtab, call, local, ret>>

\* faulty variant: reopen does not look whether the target is open
ReopenCheck_Always(t) ==
  /\ At(t, "reopen_check")
  /\ pc' = [pc EXCEPT ![t] = "reopen_close"]
  /\ Logged(t, <<LoadEv(handle)>>)
  /\ UNCHANGED <<wire, target, setter, handle, mutex, fdtab, call, local, ret>>

\* faulty variant: the reopen of a target that is not open returns at once
ReopenCheck_EarlyReturn(t) ==
  /\ At(t, "reopen_check")
  /\ pc' = [pc EXCEPT ![t] = IF sys_socket_network_target_is_open
                               THEN "reopen_close" ELSE "done"]
  /\ ret' = [ret EXCEPT ![t] = IF sys_socket_network_target_is_open
                                 THEN @ ELSE [ptr |-> "target", n |-> 0]]
  /\ Logged(t, <<LoadEv(handle)>>)
  /\ UNCHANGED <<wire, target, setter, handle, mutex, fdtab, call, local>>

\* if( sys_socket_network_target_is_open( target ) )
ReopenCheck(t) ==
  /\ At(t, "reopen_check")
  /\ pc' = [pc EXCEPT ![t] = IF sys_socket_network_target_is_open
                               THEN "reopen_close" ELSE "reopen_unlock"]
  /\ Logged(t, <<LoadEv(handle)>>)
  /\ UNCHANGED <<wire, target, setter, handle, mutex, fdtab, call, local, ret>>

\* faulty variant: reopen connects anew without closing what it had
ReopenClose_Skip(t) ==
  /\ At(t, "reopen_close")
  /\ pc' = [pc EXCEPT ![t] = "os_socket"]
  /\ UNCHANGED <<wire, target, setter, handle, mutex, fdtab, call, local, ret, trace>>

\* close( target->handle );
ReopenClose(t) ==
  /\ At(t, "reopen_close")
  /\ fdtab' = CloseTab(handle)
  /\ pc' = [pc EXCEPT ![t] = "os_socket"]
  /\ Logged(t, <<LoadEv(handle), CloseEv(handle)>>)
  /\ UNCHANGED <<wire, target, setter, handle, mutex, call, local, ret>>

\* faulty variant: a failed reopen leaves the closed descriptor in handle
ReopenStore_KeepOnFailure(t) ==
  /\ At(t, "reopen_store")
  /\ handle' = IF local[t].result = -1 THEN handle ELSE local[t].result
  /\ setter' = "reopen"
  /\ pc' = [pc EXCEPT ![t] = "reopen_unlock"]
  /\ Logged(t, <<StoreEv(handle')>>)
  /\ UNCHANGED <<wire, target, mutex, fdtab, call, local, ret>>

\* target->handle = sys_socket_open_socket( ... );
ReopenStore(t) ==
  /\ At(t, "reopen_store")
  /\ handle' = local[t].result
  /\ setter' = "reopen"
  /\ pc' = [pc EXCEPT ![t] = "reopen_unlock"]
  /\ Logged(t, <<StoreEv(local[t].result)>>)
  /\ UNCHANGED <<wire, target, mutex, fdtab, call, local, ret>>

\* unlock_network_target( target ); return target;
ReopenUnlock(t) ==
  /\ At(t, "reopen_unlock")
  /\ unlock_network_target(t)
  /\ ret' = [ret EXCEPT ![t] = [ptr |-> "target", n |-> 0]]
  /\ pc' = [pc EXCEPT ![t] = "done"]
  /\ Logged(t, <<UnlockEv>>)
  /\ UNCHANGED <<wire, target, setter, handle, fdtab, call, local>>

\* --------------------------------------- sys_socket_sendto_target, 236-256
\* faulty variant: send goes on without the mutex
SendLock_NoLock(t) ==
  /\ At(t, "send_lock")
  /\ pc' = [pc EXCEPT ![t] = "send_send"]
  /\ Logged(t, <<LockEv>>)
  /\ UNCHANGED <<wire, target, setter, handle, mutex, fdtab, call, local, ret>>

\* lock_network_target( target );
SendLock(t) ==
  /\ At(t, "send_lock")
  /\ lock_network_target(t)
  /\ pc' = [pc EXCEPT ![t] = "send_send"]
  /\ trace' = [trace EXCEPT ![t] = Append(@, [LockEv EXCEPT !.held = TRUE])]
  /\ UNCHANGED <<wire, target, setter, handle, fdtab, call, local, ret>>

\* the bytes of the send call of a thread that the peer has received
Copied(t) == Len(SelectSeq(wire.bytes, LAMBDA b : b = t))

\* send answers with the number of bytes it has passed on, or with -1 when it
\* has passed on none
WireAgrees(t, r) ==
  wire.on =>
    IF Copied(t) > 0 THEN r = Copied(t)
                     ELSE r = -1 \/ (call[t].len = 0 /\ r = 0)

\* What send( fd, msg, n, 0 ) may answer: <<result, errno>>.
SendOutcomes(f, n, errno) ==
  IF f \in FDs /\ fdtab[f] = "connected"
    THEN {<<k, errno>> : k \in (IF n = 0 THEN {0} ELSE 1..n)}
           \cup {<<-1, Errno.EPIPE>>}
    ELSE IF IsOpenFd(f) THEN {<<-1, Errno.ENOTCONN>>}
                        ELSE {<<-1, Errno.EBADF>>}

\* code: the errno the call left, when it failed
SendEv(f, n, o) ==
  [NoEv EXCEPT !.ev = "send", !.fd = f, !.len = n, !.res = o[1],
               !.code = IF o[1] = -1 THEN o[2] ELSE 0]

\* faulty variant: a failed send closes the target
SendSend_AutoClose(t) ==
  /\ At(t, "send_send")
  /\ \E o \in SendOutcomes(handle, call[t].len, local[t].errno) :
       /\ local' = [local EXCEPT ![t].result = o[1], ![t].errno = o[2]]
       /\ Logged(t, <<LoadEv(handle), SendEv(handle, call[t].len, o)>>)
       /\ handle' = IF o[1] = -1 THEN Sentinel ELSE handle
       /\ fdtab' = IF o[1] = -1 THEN CloseTab(handle) ELSE fdtab
  /\ pc' = [pc EXCEPT ![t] = "send_unlock"]
  /\ UNCHANGED <<wire, target, setter, mutex, call, ret>>

\* faulty variant: send returns -1 at once when the target is not open
SendSend_ShortCircuit(t) ==
  /\ At(t, "send_send")
  /\ IF handle = Sentinel
       THEN /\ local' = [local EXCEPT ![t].result = -1,
                                       ![t].errno = Errno.EBADF]
            /\ Logged(t, <<LoadEv(handle)>>)
       ELSE \E o \in SendOutcomes(handle, call[t].len, local[t].errno) :
              /\ local' = [local EXCEPT ![t].result = o[1], ![t].errno = o[2]]
              /\ Logged(t, <<LoadEv(handle), SendEv(handle, call[t].len, o)>>)
  /\ pc' = [pc EXCEPT ![t] = "send_unlock"]
  /\ UNCHANGED <<wire, target, handle, setter, mutex, fdtab, call, ret>>

\* result = send( target->handle, msg, msg_length, 0 );
SendSend(t) ==
  /\ At(t, "send_send")
  /\ \E o \in SendOutcomes(handle, call[t].len, local[t].errno) :
       /\ WireAgrees(t, o[1])
       /\ local' = [local EXCEPT ![t].result = o[1], ![t].errno = o[2]]
       /\ Logged(t, <<LoadEv(handle), SendEv(handle, call[t].len, o)>>)
  /\ pc' = [pc EXCEPT ![t] = "send_unlock"]
  /\ UNCHANGED <<wire, target, setter, handle, mutex, fdtab, call, ret>>

\* While send runs, the transport passes the bytes of msg on to the peer one
\* after the other.
SendCopy(t) ==
  /\ At(t, "send_send")
  /\ wire.on
  /\ handle \in FDs
  /\ fdtab[handle] = "connected"
  /\ Copied(t) < call[t].len
  /\ wire' = [wire EXCEPT !.bytes = Append(@, t)]
  /\ UNCHANGED <<target, setter, handle, mutex, fdtab, pc, call, local, ret,
                 trace>>

\* faulty variant: a send of no bytes is taken for a failure
SendRaise_Nonpositive(r, errno) ==
  IF r <= 0 THEN <<RaiseEv("send_failure", errno, "errno")>> ELSE <<>>

\* faulty variant: the failure of send is returned and not reported
SendRaise_Never(r, errno) == <<>>

\* if( result == -1 ) raise_socket_send_failure( ..., errno, ... );
SendRaise(r, errno) ==
  IF r = -1 THEN <<RaiseEv("send_failure", errno, "errno")>> ELSE <<>>

\* unlock_network_target( target ); the check of result; return result;
\* (errno and the error of a thread are its own, so that what follows the
\* unlock is not seen by another thread)
SendUnlock(t) ==
  /\ At(t, "send_unlock")
  /\ unlock_network_target(t)
  /\ trace' = [trace EXCEPT ![t] = @ \o
       <<[UnlockEv EXCEPT !.held = t \in mutex.holders]>> \o
       SendRaise(local[t].result, local[t].errno)]
  /\ ret' = [ret EXCEPT ![t] = [ptr |-> "none", n |-> local[t].result]]
  /\ pc' = [pc EXCEPT ![t] = "done"]
  /\ UNCHANGED <<wire, target, setter, handle, fdtab, call, local>>

\* --------------------------------- sys_socket_close_network_target, 89-96
\* The caller destroys a target when no other call on it is in flight.
Quiescent == \A u \in Threads : pc[u] = "idle"

CloseCall(t) ==
  /\ Quiescent
  /\ Enter(t, [op |-> "close", variant |-> "none", len |-> 0], "close_check")
  /\ UNCHANGED wire

\* faulty variant: close closes the handle without looking at it
CloseCheck_Always(t) ==
  /\ At(t, "close_check")
  /\ fdtab' = CloseTab(handle)
  /\ Logged(t, <<LoadEv(handle), CloseEv(handle)>>)
  /\ pc' = [pc EXCEPT ![t] = "close_destroy"]
  /\ UNCHANGED <<wire, target, setter, handle, mutex, call, local, ret>>

\* faulty variant: close marks the target as not open
CloseCheck_Reset(t) ==
  /\ At(t, "close_check")
  /\ IF handle # -1
       THEN /\ fdtab' = CloseTab(handle)
            /\ handle' = Sentinel
            /\ Logged(t, <<LoadEv(handle), LoadEv(handle), CloseEv(handle)>>)
       ELSE /\ Logged(t, <<LoadEv(handle)>>)
            /\ UNCHANGED <<fdtab, handle>>
  /\ pc' = [pc EXCEPT ![t] = "close_destroy"]
  /\ UNCHANGED <<wire, target, setter, mutex, call, local, ret>>

\* if( target->handle != -1 ) close( target->handle );
CloseCheck(t) ==
  /\ At(t, "close_check")
  /\ IF handle # -1
       THEN /\ fdtab' = CloseTab(handle)
            /\ Logged(t, <<LoadEv(handle), LoadEv(handle), CloseEv(handle)>>)
       ELSE /\ Logged(t, <<LoadEv(handle)>>)
            /\ UNCHANGED fdtab
  /\ pc' = [pc EXCEPT ![t] = "close_destroy"]
  /\ UNCHANGED <<wire, target, setter, handle, mutex, call, local, ret>>

DestroyEv == [NoEv EXCEPT !.ev = "destroy_mutex"]

\* config_destroy_mutex( &target->mutex );
CloseDestroy(t) ==
  /\ At(t, "close_destroy")
  /\ mutex' = [mutex EXCEPT !.live = FALSE]
  /\ Logged(t, <<[DestroyEv EXCEPT !.res = IF mutex.live THEN 0 ELSE -1]>>)
  /\ pc' = [pc EXCEPT ![t] = "done"]
  /\ UNCHANGED <<wire, target, setter, handle, fdtab, call, local, ret>>

\* ---------------------------- sys_socket_network_target_is_open, 258-261
\* the query, called on its own
IsOpen(t) ==
  /\ At(t, "idle")
  /\ call' = [call EXCEPT ![t] = [op |-> "is_open", variant |-> "none", len |-> 0]]
  /\ ret' = [ret EXCEPT ![t] =
               [ptr |-> "none",
                n |-> IF sys_socket_network_target_is_open THEN 1 ELSE 0]]
  /\ Logged(t, <<LoadEv(handle)>>)
  /\ pc' = [pc EXCEPT ![t] = "done"]
  /\ UNCHANGED <<wire, target, setter, handle, mutex, fdtab, local>>

\* ------------------------------------------------------------ the caller
\* the caller takes the returned value and is free to call again
Leave(t) ==
  /\ At(t, "done")
  /\ pc' = [pc EXCEPT ![t] = "idle"]
  /\ call' = [call EXCEPT ![t] = NoCall]
  /\ local' = [local EXCEPT ![t] = NoLocal]
  /\ ret' = [ret EXCEPT ![t] = NoRet]
  /\ trace' = [trace EXCEPT ![t] = <<>>]
  /\ UNCHANGED <<target, setter, handle, mutex, fdtab>>

Return(t) ==
  /\ Leave(t)
  /\ UNCHANGED wire

Step(t) ==
  \/ OpenCall(t)
  \/ ReopenCall(t)
  \/ \E n \in MsgLens : SendCall(t, n)
  \/ CloseCall(t)
  \/ IsOpen(t)
  \/ OpenLock(t) \/ OpenStore(t) \/ OpenUnlock(t)
  \/ ReopenLock(t) \/ ReopenCheck(t) \/ ReopenClose(t) \/ ReopenStore(t)
  \/ ReopenUnlock(t)
  \/ OsSocket(t) \/ OsGetaddrinfo(t) \/ OsConnect(t) \/ OsDone(t)
  \/ OsFailConnect(t) \/ OsFailAddr(t)
  \/ SendLock(t) \/ SendSend(t) \/ SendUnlock(t)
  \/ CloseCheck(t) \/ CloseDestroy(t)
  \/ Return(t)

Next == \E t \in Threads : Step(t)

Spec == Init /\ [][Next]_vars

\* a single-threaded run: one thread makes every call
SpecSingle == Init /\ [][Step(1)]_vars

\* the steps of a thread inside a call, and its return
Proceed(t) ==
  \/ OpenLock(t) \/ OpenStore(t) \/ OpenUnlock(t)
  \/ ReopenLock(t) \/ ReopenCheck(t) \/ ReopenClose(t) \/ ReopenStore(t)
  \/ ReopenUnlock(t)
  \/ OsSocket(t) \/ OsGetaddrinfo(t) \/ OsConnect(t) \/ OsDone(t)
  \/ OsFailConnect(t) \/ OsFailAddr(t)
  \/ SendLock(t) \/ SendSend(t) \/ SendUnlock(t)
  \/ CloseCheck(t) \/ CloseDestroy(t)
  \/ Return(t)

\* Every system call returns and the mutex is fair: a thread that can again
\* and again take the next step of its call takes it.
SpecFair == Spec /\ \A t \in Threads : SF_vars(Proceed(t))

\* ------------------------------------------ concurrent sends to one peer
\* The target is open, the peer is observed, and each thread calls send once.
InitSends ==
  /\ target \in Targets
  /\ handle = 0
  /\ setter = "open"
  /\ mutex = [holders |-> {}, live |-> TRUE]
  /\ fdtab = [f \in FDs |-> IF f = 0 THEN "connected" ELSE "free"]
  /\ pc = [t \in Threads |-> "idle"]
  /\ call = [t \in Threads |-> NoCall]
  /\ local = [t \in Threads |-> NoLocal]
  /\ ret = [t \in Threads |-> NoRet]
  /\ trace = [t \in Threads |-> <<>>]
  /\ wire = [NoWire EXCEPT !.on = TRUE]

SendOnce(t, n) ==
  /\ t \notin wire.sent
  /\ Enter(t, [op |-> "send", variant |-> "none", len |-> n], "send_lock")
  /\ wire' = [wire EXCEPT !.sent = @ \cup {t}, !.req[t] = n]

SendReturn(t) ==
  /\ Leave(t)
  /\ wire' = [wire EXCEPT !.got[t] = ret[t].n]

StepSends(t) ==
  \/ \E n \in MsgLens : SendOnce(t, n)
  \/ SendLock(t) \/ SendCopy(t) \/ SendSend(t) \/ SendUnlock(t)
  \/ SendReturn(t)

NextSends == \E t \in Threads : StepSends(t)

SpecSends == InitSends /\ [][NextSends]_vars

\* ================================================================ claims
Evs(tr, name) == SelectSeq(tr, LAMBDA e : e.ev = name)
Count(tr, name) == Len(Evs(tr, name))
Syscalls == {"socket", "getaddrinfo", "connect", "freeaddrinfo", "close", "send"}

\* the statements between a thread's lock_network_target and its
\* unlock_network_target
CriticalPcs ==
  {"os_socket", "os_getaddrinfo", "os_connect", "os_done", "os_fail_connect",
   "os_fail_addr", "open_store", "open_unlock", "reopen_check", "reopen_close",
   "reopen_store", "reopen_unlock", "send_send", "send_unlock"}
InCS(t) == pc[t] \in CriticalPcs

Done(t, op) == pc[t] = "done" /\ call[t].op = op

\* what the sys_socket_open_socket call of a trace returned: the descriptor
\* it connected, or -1
PrimResult(tr) ==
  IF \E i \in 1..Len(tr) : tr[i].ev = "connect" /\ tr[i].res = 0
    THEN Evs(tr, "socket")[1].res
    ELSE -1

\* C1: in any interleaving of open, reopen and send calls on the target, at
\* most one thread is between its lock acquisition and its lock release, and
\* every socket, getaddrinfo, connect, freeaddrinfo, close and send call of
\* these operations is made by a thread that holds the mutex, so that the
\* system calls of two operations never interleave.
C1_Serialized ==
  /\ \A t \in Threads : \A u \in Threads :
       t # u => ~(InCS(t) /\ InCS(u))
  /\ \A t \in Threads :
       call[t].op \in {"open", "reopen", "send"} =>
         \A i \in 1..Len(trace[t]) :
           trace[t][i].ev \in Syscalls => trace[t][i].held

\* a reopen is in the middle of its connect while a send and nothing else
\* waits for the mutex
C1_Witness ==
  \E t \in Threads : \E u \in Threads :
    /\ call[t].op = "reopen" /\ pc[t] = "os_connect"
    /\ pc[u] = "send_lock"

Held(e) == [e EXCEPT !.held = TRUE]
AllHeld(tr) == \A i \in 1..Len(tr) : tr[i].held

\* C2: an open call makes one sys_socket_open_socket call while it holds the
\* mutex, stores what that call returned (a descriptor or -1) into handle
\* before it releases the mutex, and returns the target if and only if that
\* result is not -1, NULL otherwise; in a single-threaded run the target is
\* open after an open that succeeded and not open after one that failed.
C2_Open ==
  \A t \in Threads :
    Done(t, "open") =>
      LET tr == trace[t]
          r == PrimResult(tr)
      IN /\ Count(tr, "socket") = 1
         /\ Count(tr, "lock") = 1 /\ tr[1] = Held(LockEv)
         /\ Count(tr, "unlock") = 1 /\ tr[Len(tr)] = Held(UnlockEv)
         /\ Count(tr, "store_handle") = 1
         /\ tr[Len(tr) - 1] = Held(StoreEv(r))
         /\ AllHeld(tr)
         /\ ret[t].ptr = (IF r # Sentinel THEN "target" ELSE "NULL")
         /\ sys_socket_network_target_is_open = (r # Sentinel)

\* an open has connected and returned the target
C2_Witness ==
  \E t \in Threads :
    /\ Done(t, "open")
    /\ PrimResult(trace[t]) \in FDs
    /\ ret[t].ptr = "target"
    /\ handle = PrimResult(trace[t])

\* a reopen call that found the target open, once it has stored its result
ReopenOfOpen(t) ==
  /\ call[t].op = "reopen"
  /\ pc[t] \in {"reopen_unlock", "done"}
  /\ trace[t][2].fd # Sentinel

\* C3: a reopen call on a target whose handle is not -1 closes that
\* descriptor once, then makes one sys_socket_open_socket call, stores the
\* descriptor or -1 it returned into handle, and returns the target whether
\* the call succeeded or not; when it failed the target is not open and the
\* descriptor it had is closed.
C3_ReopenOfOpen ==
  \A t \in Threads :
    ReopenOfOpen(t) =>
      LET tr == trace[t]
          h == tr[2].fd
          r == PrimResult(tr)
          stored == IF pc[t] = "done" THEN Len(tr) - 1 ELSE Len(tr)
      IN /\ SubSeq(tr, 1, 4) =
              <<Held(LockEv), Held(LoadEv(h)), Held(LoadEv(h)),
                [Held(CloseEv(h)) EXCEPT !.res = 0]>>
         /\ tr[5].ev = "socket"
         /\ Count(tr, "socket") = 1
         /\ \A i \in 1..Len(tr) : tr[i].ev = "close" => tr[i].res = 0
         /\ Count(tr, "store_handle") = 1
         /\ tr[stored] = Held(StoreEv(r))
         /\ pc[t] = "done" => ret[t].ptr = "target"
         /\ (pc[t] = "reopen_unlock" /\ r = Sentinel) =>
              /\ ~sys_socket_network_target_is_open
              /\ fdtab[h] = "free"

\* a reopen of an open target has failed to connect and has returned the
\* target
C3_Witness ==
  \E t \in Threads :
    /\ ReopenOfOpen(t)
    /\ pc[t] = "done"
    /\ Count(trace[t], "connect") = 1
    /\ PrimResult(trace[t]) = Sentinel
    /\ ret[t].ptr = "target"

\* a reopen call that found the target not open
ReopenOfSentinel(t) ==
  /\ call[t].op = "reopen"
  /\ pc[t] \in {"reopen_unlock", "done"}
  /\ trace[t][2].fd = Sentinel

C4_State ==
  \A t \in Threads :
    ReopenOfSentinel(t) =>
      /\ pc[t] = "reopen_unlock" =>
           /\ trace[t] = <<Held(LockEv), Held(LoadEv(Sentinel))>>
           /\ handle = Sentinel
      /\ pc[t] = "done" =>
           /\ trace[t] = <<Held(LockEv), Held(LoadEv(Sentinel)), Held(UnlockEv)>>
           /\ ret[t].ptr = "target"

C4_Frame ==
  \A t \in Threads :
    (/\ call[t].op = "reopen"
     /\ pc[t] \in {"reopen_lock", "reopen_check", "reopen_unlock"}
     /\ pc'[t] # pc[t]
     /\ handle = Sentinel)
    => /\ handle' = Sentinel
       /\ fdtab' = fdtab
       /\ pc[t] = "reopen_check" => pc'[t] = "reopen_unlock"

\* C4: a reopen call on a target whose handle is -1 acquires and releases
\* the mutex, makes no socket, getaddrinfo, connect or close call, reports no
\* error, leaves handle -1 and the descriptors as they were, and returns the
\* target, every time it is called in that state.
C4_ReopenNoop == [](C4_State) /\ [][C4_Frame]_vars

\* a reopen has returned from a target that an earlier open failed to connect
C4_Witness ==
  \E t \in Threads :
    /\ ReopenOfSentinel(t)
    /\ pc[t] = "done"
    /\ handle = Sentinel
    /\ ret[t].ptr = "target"

\* a reopen call that finds the target as a failed reopen left it
ReopenAfterFailedReopen(t) ==
  /\ ReopenOfSentinel(t)
  /\ setter = "reopen"

\* an open call on the target as a failed reopen left it, when its
\* sys_socket_open_socket call has returned
OpenAfterFailedReopen(t) ==
  /\ call[t].op = "open"
  /\ pc[t] = "open_store"
  /\ setter = "reopen"
  /\ handle = Sentinel

\* C5, as claimed: after a reopen that failed to connect, a later reopen
\* call makes a new connection attempt.
C5_Original ==
  \A t \in Threads :
    ReopenAfterFailedReopen(t) => Count(trace[t], "socket") >= 1

C5_State ==
  \A t \in Threads :
    /\ ReopenAfterFailedReopen(t) =>
         /\ \A i \in 1..Len(trace[t]) : trace[t][i].ev \notin Syscalls
         /\ pc[t] = "reopen_unlock" => ~sys_socket_network_target_is_open
    /\ OpenAfterFailedReopen(t) =>
         /\ Count(trace[t], "socket") = 1
         /\ local[t].result = PrimResult(trace[t])

C5_Retry ==
  \A t \in Threads :
    (OpenAfterFailedReopen(t) /\ pc'[t] # pc[t]) =>
      /\ handle' = PrimResult(trace[t])
      /\ PrimResult(trace[t]) # Sentinel =>
           /\ handle' \in FDs
           /\ fdtab'[handle'] = "connected"

\* C5, amended: after a reopen that failed to connect the target is not open
\* and a later reopen call on it makes no connection attempt and leaves it
\* not open; a later open call makes a new connection attempt, and when that
\* attempt succeeds the target is open again.
C5_RetryByOpen == [](C5_State) /\ [][C5_Retry]_vars

\* an open call has connected the target that a failed reopen left, and is
\* about to assign handle
C5_Witness ==
  \E t \in Threads :
    /\ OpenAfterFailedReopen(t)
    /\ PrimResult(trace[t]) \in FDs

\* C6: a send call makes one send call on the handle it reads while it
\* holds the mutex and returns what that call returned: the number of bytes,
\* which may be less than msg_length and is 0 for an empty message, with no
\* error reported, or -1 with one send failure reported that carries the
\* errno of that send call.
C6_Send ==
  \A t \in Threads :
    Done(t, "send") =>
      LET tr == trace[t]
      IN /\ tr[1] = Held(LockEv)
         /\ tr[2].ev = "load_handle" /\ tr[2].held
         /\ tr[3].ev = "send" /\ tr[3].held
         /\ tr[3].fd = tr[2].fd /\ tr[3].len = call[t].len
         /\ tr[4] = Held(UnlockEv)
         /\ Count(tr, "send") = 1
         /\ ret[t].n = tr[3].res
         /\ tr[3].res = -1 =>
              /\ Len(tr) = 5
              /\ tr[5] = RaiseEv("send_failure", tr[3].code, "errno")
              /\ tr[3].code \in {Errno.EBADF, Errno.EPIPE, Errno.ENOTCONN}
         /\ tr[3].res # -1 =>
              /\ Len(tr) = 4
              /\ tr[3].res \in 0..call[t].len
              /\ call[t].len = 0 => ret[t].n = 0

\* a send of two bytes has returned 1
C6_Witness ==
  \E t \in Threads :
    /\ Done(t, "send")
    /\ call[t].len = 2
    /\ ret[t].n = 1
    /\ Count(trace[t], "raise") = 0

\* C7: no step of a send call changes handle or closes or connects a
\* descriptor, whatever its send call returns, so that the target is open
\* after the call exactly when it was before.
C7_SendKeepsState ==
  [][\A t \in Threads :
       (call'[t].op = "send" /\ pc'[t] # pc[t]) =>
         /\ handle' = handle
         /\ fdtab' = fdtab
         /\ setter' = setter]_vars

\* a send on an open target has failed, and the target is still open
C7_Witness ==
  \E t \in Threads :
    /\ Done(t, "send")
    /\ ret[t].n = -1
    /\ sys_socket_network_target_is_open
    /\ fdtab[handle] = "connected"

\* C8: a send call on a target whose handle is -1 acquires the mutex, calls
\* send with the descriptor -1, and, that call failing, returns -1 and
\* reports one error, a send failure.
C8_SendOnSentinel ==
  \A t \in Threads :
    (Done(t, "send") /\ trace[t][2].fd = Sentinel) =>
      LET tr == trace[t]
      IN /\ tr[1] = Held(LockEv)
         /\ Count(tr, "send") = 1
         /\ tr[3].ev = "send" /\ tr[3].fd = Sentinel /\ tr[3].held
         /\ tr[3].res = -1
         /\ ret[t].n = -1
         /\ Count(tr, "raise") = 1
         /\ Evs(tr, "raise")[1].kind = "send_failure"

\* a send on a target that was never opened has returned
C8_Witness ==
  \E t \in Threads :
    /\ Done(t, "send")
    /\ setter = "init"
    /\ trace[t][2].fd = Sentinel
    /\ ret[t].n = -1

\* the calls of a trace that failed
IsFailure(e) ==
  \/ e.ev \in {"socket", "connect", "send"} /\ e.res = -1
  \/ e.ev = "getaddrinfo" /\ e.res # 0
Failures(tr) == SelectSeq(tr, IsFailure)

FailureKind(e) ==
  CASE e.ev = "socket" -> "socket_failure"
    [] e.ev = "getaddrinfo" -> "address_failure"
    [] e.ev = "connect" -> "connect_failure"
    [] e.ev = "send" -> "send_failure"

\* every failed call of the trace is reported once and none is made again
ReportedOnce(tr) ==
  /\ Len(Failures(tr)) <= 1
  /\ Count(tr, "raise") = Len(Failures(tr))
  /\ \A name \in {"socket", "getaddrinfo", "connect", "send"} :
       Count(tr, name) <= 1
  /\ Failures(tr) # <<>> =>
       Evs(tr, "raise")[1].kind = FailureKind(Failures(tr)[1])

ReturnedSentinel(t) ==
  \/ call[t].op \in {"open", "reopen"} /\ ret[t].ptr = "NULL"
  \/ call[t].op = "send" /\ ret[t].n = -1

Finished(t) ==
  pc[t] = "done" /\ call[t].op \in {"open", "reopen", "send"}

\* C9, as claimed: in every open, reopen and send call a failed socket,
\* getaddrinfo, connect or send call is reported once, is not made again,
\* and is returned to the caller as -1 or NULL.
C9_Original ==
  \A t \in Threads :
    Finished(t) =>
      /\ ReportedOnce(trace[t])
      /\ Failures(trace[t]) # <<>> => ReturnedSentinel(t)

\* C9, amended: in every open, reopen and send call a failed socket,
\* getaddrinfo, connect or send call is reported once and is not made again;
\* open returns NULL and send returns -1 for it, and reopen stores -1 in
\* handle and returns the target.
C9_Failures ==
  \A t \in Threads :
    Finished(t) =>
      /\ ReportedOnce(trace[t])
      /\ Failures(trace[t]) # <<>> =>
           IF call[t].op = "reopen"
             THEN /\ ret[t].ptr = "target"
                  /\ Evs(trace[t], "store_handle")[1].fd = Sentinel
             ELSE ReturnedSentinel(t)

\* a reopen whose getaddrinfo call failed has returned
C9_Witness ==
  \E t \in Threads :
    /\ Finished(t)
    /\ call[t].op = "reopen"
    /\ Failures(trace[t]) # <<>>
    /\ Failures(trace[t])[1].ev = "getaddrinfo"

\* what a thread's sys_socket_open_socket call has done: its trace from the
\* socket call on
PrimEvents(t) ==
  LET tr == trace[t]
      k == CHOOSE i \in 1..Len(tr) : tr[i].ev = "socket"
  IN SubSeq(tr, k, Len(tr))

Returned(t) == pc[t] \in {"open_store", "reopen_store"}

\* C10: when sys_socket_open_socket returns it has released what it
\* acquired, each once: nothing when socket failed; the socket, and no
\* address list, when getaddrinfo failed; the address list and then the
\* socket when connect failed; the address list, and not the descriptor it
\* returns, when it succeeded.
C10_Released ==
  \A t \in Threads :
    Returned(t) =>
      LET P == PrimEvents(t)
          new == P[1].res
          closes == Evs(P, "close")
          frees == Evs(P, "freeaddrinfo")
      IN IF new = -1
           THEN /\ closes = <<>> /\ frees = <<>>
                /\ local[t].result = -1
           ELSE IF Count(P, "getaddrinfo") = 1 /\ Evs(P, "getaddrinfo")[1].res # 0
             THEN /\ frees = <<>>
                  /\ closes = <<[Held(CloseEv(new)) EXCEPT !.res = 0]>>
                  /\ fdtab[new] = "free"
                  /\ local[t].result = -1
           ELSE IF Count(P, "connect") = 1 /\ Evs(P, "connect")[1].res = -1
             THEN /\ frees = <<Held(FreeaddrinfoEv("alloc"))>>
                  /\ closes = <<[Held(CloseEv(new)) EXCEPT !.res = 0]>>
                  /\ P[Len(P) - 1].ev = "freeaddrinfo" /\ P[Len(P)].ev = "close"
                  /\ fdtab[new] = "free"
                  /\ local[t].result = -1
           ELSE /\ Count(P, "connect") = 1
                /\ frees = <<Held(FreeaddrinfoEv("alloc"))>>
                /\ closes = <<>>
                /\ fdtab[new] = "connected"
                /\ local[t].result = new

\* the sys_socket_open_socket call of an open has returned after its connect
\* failed
C10_Witness ==
  \E t \in Threads :
    /\ Returned(t)
    /\ call[t].op = "open"
    /\ Count(trace[t], "connect") = 1
    /\ local[t].result = -1

\* the socket, getaddrinfo and connect calls of a sys_socket_open_socket call
PrimCalls(t) ==
  SelectSeq(PrimEvents(t), LAMBDA e : e.ev \in {"socket", "getaddrinfo", "connect"})

PrimOrder == <<"socket", "getaddrinfo", "connect">>

\* C11: sys_socket_open_socket calls socket, getaddrinfo and connect in this
\* order and stops at the first that fails: it then returns -1 and has
\* reported one error, a socket failure with errno, an address failure with
\* the status getaddrinfo returned, or a connect failure with errno, right
\* after the call that failed; when the three calls succeed it reports none.
C11_FirstFailure ==
  \A t \in Threads :
    Returned(t) =>
      LET P == PrimEvents(t)
          calls == PrimCalls(t)
          n == Len(calls)
          last == calls[n]
          raises == Evs(P, "raise")
      IN /\ n \in 1..3
         /\ \A i \in 1..n : calls[i].ev = PrimOrder[i]
         /\ \A i \in 1..(n - 1) : ~IsFailure(calls[i])
         /\ IF IsFailure(last)
              THEN /\ local[t].result = -1
                   /\ Len(raises) = 1
                   /\ \E i \in 1..(Len(P) - 1) :
                        P[i] = last /\ P[i + 1] = raises[1]
                   /\ raises[1] =
                        Held(CASE last.ev = "socket" ->
                                    RaiseEv("socket_failure", local[t].errno, "errno")
                               [] last.ev = "getaddrinfo" ->
                                    RaiseEv("address_failure", last.res, "getaddrinfo")
                               [] last.ev = "connect" ->
                                    RaiseEv("connect_failure", local[t].errno, "errno"))
                   /\ last.ev = "getaddrinfo" => last.res = Eai.NONAME
                   /\ last.ev # "getaddrinfo" =>
                        local[t].errno \in {Errno.EMFILE, Errno.ECONNREFUSED}
              ELSE /\ n = 3
                   /\ raises = <<>>
                   /\ local[t].result = calls[1].res

\* the sys_socket_open_socket call of an open has returned after getaddrinfo
\* failed
C11_Witness ==
  \E t \in Threads :
    /\ Returned(t)
    /\ call[t].op = "open"
    /\ Len(PrimCalls(t)) = 2
    /\ PrimCalls(t)[2].res = Eai.NONAME

\* C12: close closes the descriptor exactly when handle is not -1, and
\* destroys the mutex once in either case; on a target that was never opened,
\* or whose last open or reopen failed, it makes no close call.
C12_Close ==
  \A t \in Threads :
    Done(t, "close") =>
      LET tr == trace[t]
          h == tr[1].fd
      IN /\ tr[1] = LoadEv(h)
         /\ h = handle
         /\ IF h # Sentinel
              THEN tr = <<LoadEv(h), LoadEv(h),
                          [CloseEv(h) EXCEPT !.res = tr[3].res],
                          DestroyEv>>
              ELSE tr = <<LoadEv(h), DestroyEv>>
         /\ Count(tr, "close") = (IF h # Sentinel THEN 1 ELSE 0)
         /\ Count(tr, "destroy_mutex") = 1
         /\ ~mutex.live

\* close has returned from a target whose last reopen failed
C12_Witness ==
  \E t \in Threads :
    /\ Done(t, "close")
    /\ setter = "reopen"
    /\ handle = Sentinel
    /\ Count(trace[t], "close") = 0

\* close has not been called on the target
BeforeClose == mutex.live /\ \A u \in Threads : call[u].op # "close"

\* handle is -1 or a descriptor that connect has connected and nothing closed
HandleValid ==
  handle = Sentinel \/ (handle \in FDs /\ fdtab[handle] = "connected")

\* a reopen has closed the descriptor in handle and not yet assigned handle
InReopenWindow(t) ==
  /\ call[t].op = "reopen"
  /\ pc[t] \in {"os_socket", "os_getaddrinfo", "os_connect", "os_done",
               "os_fail_connect", "os_fail_addr", "reopen_store"}

\* C13 as stated: in every state between construction and close, handle is -1
\* or a connected descriptor that is not closed.
C13_Original == BeforeClose => HandleValid

\* C13: in every state between construction and close in which no reopen is
\* between its close of handle and its assignment to handle, and so whenever
\* no thread holds the mutex, handle is -1 or a connected descriptor that is
\* not closed.
C13_HandleValid ==
  (BeforeClose /\ \A t \in Threads : ~InReopenWindow(t)) => HandleValid

\* a reopen has just assigned the descriptor of its new connection
C13_Witness ==
  \E t \in Threads :
    /\ BeforeClose
    /\ call[t].op = "reopen"
    /\ pc[t] = "reopen_unlock"
    /\ Count(trace[t], "store_handle") = 1
    /\ handle \in FDs
    /\ fdtab[handle] = "connected"

\* the descriptors that the operations of the target created and nothing
\* has closed
Live == {f \in FDs : fdtab[f] # "free"}

\* C14 as stated: after any open, reopen, send and close calls the target has
\* at most one descriptor that is not closed.
C14_Original == Cardinality(Live) <= 1

\* the descriptor that the sys_socket_open_socket call of a thread has
\* created and neither closed nor seen assigned to handle
InHand(t) ==
  IF pc[t] \in {"os_getaddrinfo", "os_connect", "os_done", "os_fail_connect",
                "os_fail_addr"}
    THEN {local[t].handle}
    ELSE IF pc[t] \in {"open_store", "reopen_store"}
           THEN {local[t].result}
           ELSE {}

\* the descriptors that are not closed and that neither handle nor a running
\* sys_socket_open_socket call refers to
Orphans == Live \ ({handle} \cup UNION {InHand(t) : t \in Threads})

\* an open runs on a target whose handle holds a descriptor that is not
\* closed, and has created a descriptor of its own
C14_OpenOfOpen ==
  \E t \in Threads :
    /\ call[t].op = "open"
    /\ InHand(t) # {}
    /\ handle \in Live

\* apart from the descriptors that opens have left behind, the target has at
\* most one descriptor that is not closed, or an open of an open target runs
C14_State == Cardinality(Live \ Orphans) > 1 => C14_OpenOfOpen

\* the step is the assignment of an open to a handle whose descriptor is not
\* closed
C14_OpenOverOpen ==
  \E t \in Threads :
    /\ call[t].op = "open"
    /\ pc[t] = "open_store"
    /\ pc'[t] = "open_unlock"
    /\ handle \in Live
    /\ Orphans' = Orphans \cup {handle}

\* C14: reopen, send and close never leave the target with more than one
\* descriptor that is not closed.  The target has two such descriptors only
\* while an open runs on a target that is open, and a descriptor that is not
\* closed stops being referred to by the target, and stays open, only when an
\* open assigns to the handle that holds it; without such opens the number of
\* descriptors created and not closed is at most one.
C14_OneDescriptor ==
  /\ [](C14_State)
  /\ [](Orphans = {} /\ ~C14_OpenOfOpen => Cardinality(Live) <= 1)
  /\ [][Orphans' # Orphans => C14_OpenOverOpen]_vars

\* a reopen of an open target has connected anew and the target has one
\* descriptor
C14_Witness ==
  \E t \in Threads :
    /\ call[t].op = "reopen"
    /\ pc[t] = "reopen_unlock"
    /\ Count(trace[t], "close") = 1
    /\ handle \in FDs
    /\ Live = {handle}

\* the reads and writes of target->handle in a trace
Accesses(tr) ==
  SelectSeq(tr, LAMBDA e : e.ev \in {"load_handle", "store_handle"})

\* C15 as stated: every read and write of handle by open, reopen, send,
\* is_open and close is made by a thread that holds the mutex.
C15_Original ==
  \A t \in Threads :
    \A i \in 1..Len(Accesses(trace[t])) : Accesses(trace[t])[i].held

\* C15: every read and write of handle by open, reopen and send is made by a
\* thread that holds the mutex; is_open called on its own and close read
\* handle without the mutex.
C15_Locked ==
  \A t \in Threads :
    \A i \in 1..Len(Accesses(trace[t])) :
      Accesses(trace[t])[i].held <=> call[t].op \in {"open", "reopen", "send"}

\* is_open has read handle on its own while a reopen that holds the mutex has
\* assigned it
C15_Witness ==
  \E t, u \in Threads :
    /\ Done(t, "is_open")
    /\ Accesses(trace[t]) = <<LoadEv(handle)>>
    /\ call[u].op = "reopen"
    /\ pc[u] = "reopen_unlock"
    /\ u \in mutex.holders
    /\ Len(Accesses(trace[u])) = 3
    /\ Accesses(trace[u])[3] = Held(StoreEv(handle))

\* family, type and protocol of each kind of target
Family == [tcp4 |-> "AF_INET", tcp6 |-> "AF_INET6",
           udp4 |-> "AF_INET", udp6 |-> "AF_INET6"]
SockType == [tcp4 |-> "SOCK_STREAM", tcp6 |-> "SOCK_STREAM",
             udp4 |-> "SOCK_DGRAM", udp6 |-> "SOCK_DGRAM"]

\* the socket and getaddrinfo calls of a trace
Requests(tr) == SelectSeq(tr, LAMBDA e : e.ev \in {"socket", "getaddrinfo"})

\* C18: the open and the reopen function of a kind of target pass the same
\* family, type and protocol to socket and getaddrinfo, (AF_INET, SOCK_STREAM,
\* 0) for tcp4, (AF_INET6, SOCK_STREAM, 0) for tcp6, (AF_INET, SOCK_DGRAM, 0)
\* for udp4 and (AF_INET6, SOCK_DGRAM, 0) for udp6, and resolve the
\* destination and port of the target.
C18_Arguments ==
  \A t \in Threads :
    \A i \in 1..Len(Requests(trace[t])) :
      LET e == Requests(trace[t])[i]
          v == target.variant
      IN /\ call[t].op \in {"open", "reopen"}
         /\ call[t].variant = v
         /\ e.domain = Family[v]
         /\ e.type = SockType[v]
         /\ e.protocol = 0
         /\ e.ev = "getaddrinfo" =>
              e.destination = target.destination /\ e.port = target.port

\* the reopen of a udp6 target has called socket and getaddrinfo
C18_Witness ==
  \E t \in Threads :
    /\ call[t].op = "reopen"
    /\ target.variant = "udp6"
    /\ Len(Requests(trace[t])) = 2
    /\ Requests(trace[t])[2].destination = "2001:db8::1"
    /\ Requests(trace[t])[2].port = "514"

\* C19: in every interleaving of open, reopen and send calls, each close that
\* one of them makes is of a descriptor that is open, so that no descriptor is
\* closed twice, and each send call is made on -1 or on a descriptor that is
\* connected and not closed.
C19_NoStaleDescriptor ==
  \A t \in Threads :
    call[t].op \in {"open", "reopen", "send"} =>
      \A i \in 1..Len(trace[t]) :
        LET e == trace[t][i]
        IN /\ e.ev = "close" => e.fd \in FDs /\ e.res = 0
           /\ e.ev = "send" /\ e.fd # Sentinel =>
                /\ e.fd \in FDs
                /\ e.res = -1 => e.code = Errno.EPIPE

\* a reopen has closed the descriptor of the target while a send waits for
\* the mutex
C19_Witness ==
  \E t, u \in Threads :
    /\ call[t].op = "reopen"
    /\ pc[t] = "os_socket"
    /\ Count(trace[t], "close") = 1
    /\ call[u].op = "send"
    /\ pc[u] = "send_lock"

\* a step of close, from its call to its return
C20_CloseStep == \E t \in Threads : call[t].op = "close" \/ call'[t].op = "close"

\* close has returned
C20_Closed ==
  \A t \in Threads :
    Done(t, "close") =>
      /\ Count(trace[t], "store_handle") = 0
      /\ Count(trace[t], "close") = 1 =>
           /\ handle # Sentinel
           /\ sys_socket_network_target_is_open
           /\ trace[t][3].fd = handle

\* C20: close does not assign handle: no step of close changes handle or what
\* is_open answers, and after close has closed the descriptor of an open
\* target, handle still holds that descriptor and is_open still answers true.
C20_CloseKeepsHandle ==
  /\ [](C20_Closed)
  /\ [][C20_CloseStep =>
          /\ handle' = handle
          /\ sys_socket_network_target_is_open' = sys_socket_network_target_is_open]_vars

\* close has returned from an open target, and handle holds the descriptor
\* it closed
C20_Witness ==
  \E t \in Threads :
    /\ Done(t, "close")
    /\ handle \in FDs
    /\ fdtab[handle] = "free"
    /\ sys_socket_network_target_is_open

\* the bytes of each send call are one block of what the peer has received
Contiguous ==
  \A i, k \in 1..Len(wire.bytes) :
    i < k /\ wire.bytes[i] = wire.bytes[k] =>
      \A j \in i..k : wire.bytes[j] = wire.bytes[i]

RECURSIVE SumOver(_, _)
SumOver(S, f) ==
  IF S = {} THEN 0
            ELSE LET x == CHOOSE y \in S : TRUE
                 IN f[x] + SumOver(S \ {x}, f)

\* every thread has called send, and every call has returned
AllReturned == wire.sent = Threads /\ \A t \in Threads : pc[t] = "idle"

\* the bytes a send call that returned r has sent
Counted(r) == IF r = -1 THEN 0 ELSE r

\* C16 as stated: when the threads call send on one open target, the bytes of
\* each call reach the peer as one block, and the peer receives as many bytes
\* as the calls asked to send.
C16_Original ==
  wire.on =>
    /\ Contiguous
    /\ AllReturned => Len(wire.bytes) = SumOver(Threads, wire.req)

\* C16: when the threads call send on one open target, the bytes of each call
\* reach the peer as one block, and the peer receives as many bytes as the
\* calls returned, a call that returned -1 counting for none: no more than
\* the calls asked to send, and fewer when a call sent a part of its message
\* or failed.
C16_Blocks ==
  wire.on =>
    /\ Contiguous
    /\ \A t \in Threads :
         Done(t, "send") => /\ Copied(t) = Counted(ret[t].n)
                            /\ Copied(t) <= call[t].len
    /\ AllReturned =>
         /\ Len(wire.bytes) =
              SumOver(Threads, [t \in Threads |-> Counted(wire.got[t])])
         /\ Len(wire.bytes) <= SumOver(Threads, wire.req)

\* every thread has sent bytes to the peer and returned, one of them after
\* it had waited for the mutex
C16_Witness ==
  /\ wire.on
  /\ AllReturned
  /\ \A t \in Threads : Copied(t) > 0
  /\ \E t \in Threads : wire.got[t] < wire.req[t]

\* the place of the first event of a kind in a trace, 0 when there is none
RECURSIVE FirstAt(_, _, _)
FirstAt(tr, name, i) ==
  IF i > Len(tr) THEN 0
                 ELSE IF tr[i].ev = name THEN i ELSE FirstAt(tr, name, i + 1)

\* a thread is in a call of open, reopen or send that has not returned
Running(t) ==
  call[t].op \in {"open", "reopen", "send"} /\ pc[t] # "done"

\* the lock and unlock calls of the open, reopen and send calls
C17_State ==
  \A t \in Threads :
    call[t].op \in {"open", "reopen", "send"} =>
      /\ Count(trace[t], "lock") <= 1
      /\ Count(trace[t], "unlock") <= Count(trace[t], "lock")
      /\ t \in mutex.holders <=>
           Count(trace[t], "lock") = 1 /\ Count(trace[t], "unlock") = 0
      /\ Count(trace[t], "lock") = 1 =>
           /\ trace[t][1] = Held(LockEv)
           /\ \A i \in 2..Len(trace[t]) :
                trace[t][i].held <=>
                  (Count(trace[t], "unlock") = 0
                     \/ i <= FirstAt(trace[t], "unlock", 1))
      /\ pc[t] = "done" =>
           /\ Count(trace[t], "lock") = 1
           /\ Count(trace[t], "unlock") = 1
           /\ t \notin mutex.holders

\* C17: every call of open, reopen and send takes the mutex once, before
\* anything else, and releases it once, on every path, and does not hold it
\* when it returns; when every system call returns and the mutex is fair,
\* every call of every thread returns.
C17_LockPaired ==
  /\ [](C17_State)
  /\ \A t \in Threads : Running(t) ~> (pc[t] = "done")

\* a reopen of a target that is not open has returned, with the mutex taken
\* and released once, while another thread waits for the mutex
C17_Witness ==
  \E t, u \in Threads :
    /\ Done(t, "reopen")
    /\ Count(trace[t], "socket") = 0
    /\ Count(trace[t], "lock") = 1
    /\ Count(trace[t], "unlock") = 1
    /\ pc[u] \in {"open_lock", "reopen_lock", "send_lock"}

====
